---------------------------- MODULE Spec2Model ----------------------------
(***************************************************************************)
(* Pearl belief-update message passing of                                  *)
(* src/beliefs/models/belief_update_node_model.py: BeliefUpdateNodeModel,  *)
(* Node and BernoulliOrNode.                                               *)
(*                                                                         *)
(* Numbers.  A numpy float64 is modelled as a triple <<n, d, e>> standing  *)
(* for (n / d) * MAXFLOAT^e, n / d an exact fraction in lowest terms with  *)
(* d > 0 and e in {-1, 0, 1}; d = 0 encodes the IEEE specials nan          *)
(* (<<0,0,0>>), +inf (<<1,0,0>>) and -inf (<<-1,0,0>>).  e = 1 is only     *)
(* produced by numpy.nan_to_num (which maps +-inf to the largest finite    *)
(* float), e = -1 by dividing by such a number.                            *)
(*                                                                         *)
(* A numpy vector is a sequence of numbers; Python's None is the empty     *)
(* sequence.                                                               *)
(***************************************************************************)
EXTENDS Integers, Sequences, FiniteSets, TLC

\* nodes_dict: BeliefUpdateNodeModel.nodes_dict, label -> node object
\* focus:      the node whose methods the caller of this run invokes.  A Node
\*             method reads and writes no object but self, so the nodes of a
\*             model evolve independently between model-level calls and a
\*             run follows one of them.
\*             None in the runs of a driver, which calls every node.
\* last:       the latest call: method, node, arguments, return value and
\*             exception
\* copy_model: the nodes_dict of the model that copy() returned, None before
\*             the call.  Each of its values is a Node object of its own
\*             (shared = FALSE, the object in obj) or the very object that
\*             the original model holds under the key (shared = TRUE).
VARIABLES nodes_dict, focus, last, copy_model

vars == <<nodes_dict, focus, last, copy_model>>

\* BernoulliOrNode passes cardinality=2 to Node.__init__.
cardinality == 2

-----------------------------------------------------------------------------
(* float64 arithmetic *)

\* The arithmetic below hands its operands to a function, [...][x, y], so that
\* an operand is a value, evaluated once, wherever the operator is used.
RECURSIVE GCD(_, _)
GCD(a, b) == [m \in Nat, n \in Nat |-> IF n = 0 THEN m ELSE GCD(n, m % n)][a, b]

Abs(x) == IF x < 0 THEN -x ELSE x
Sign(x) == IF x < 0 THEN -1 ELSE IF x = 0 THEN 0 ELSE 1

NaN == <<0, 0, 0>>
PosInf == <<1, 0, 0>>
NegInf == <<-1, 0, 0>>
Zero == <<0, 1, 0>>
One == <<1, 1, 0>>
\* numpy.finfo(float64).max, the value nan_to_num substitutes for +inf
MaxFloat == <<1, 1, 1>>

IsNaN(x) == x[2] = 0 /\ x[1] = 0
IsInf(x) == x[2] = 0 /\ x[1] # 0
IsFinite(x) == x[2] # 0
IsZero(x) == x[2] # 0 /\ x[1] = 0
Inf(s) == IF s < 0 THEN NegInf ELSE PosInf

\* The float n/d * MAXFLOAT^e: lowest terms, overflow to +-inf, underflow to 0.
MkNum(n, d, e) ==
    [nn \in Int, dd \in Int, ee \in Int |->
        LET s == Sign(nn) * Sign(dd)
            g == GCD(Abs(nn), Abs(dd))
            rn == Abs(nn) \div g
            rd == Abs(dd) \div g
        IN  IF nn = 0 THEN Zero
            ELSE IF ee > 1 \/ (ee = 1 /\ rn > rd) THEN Inf(s)
            ELSE IF ee < -1 THEN Zero
            ELSE <<s * rn, rd, ee>>][n, d, e]

Neg(x) == <<-x[1], x[2], x[3]>>

Num == Int \X Int \X Int

Mul(x, y) ==
    [a \in Num, b \in Num |->
        IF IsNaN(a) \/ IsNaN(b) THEN NaN
        ELSE IF IsInf(a) \/ IsInf(b)
             THEN IF IsZero(a) \/ IsZero(b) THEN NaN ELSE Inf(Sign(a[1]) * Sign(b[1]))
        ELSE MkNum(a[1] * b[1], a[2] * b[2], a[3] + b[3])][x, y]

Add(x, y) ==
    [a \in Num, b \in Num |->
        IF IsNaN(a) \/ IsNaN(b) THEN NaN
        ELSE IF IsInf(a) /\ IsInf(b) THEN (IF a = b THEN a ELSE NaN)
        ELSE IF IsInf(a) THEN a
        ELSE IF IsInf(b) THEN b
        ELSE IF IsZero(a) THEN b
        ELSE IF IsZero(b) THEN a
        ELSE IF a[3] > b[3] THEN a      \* the smaller magnitude is rounded away
        ELSE IF b[3] > a[3] THEN b
        ELSE MkNum(a[1] * b[2] + b[1] * a[2], a[2] * b[2], a[3])][x, y]

Sub(x, y) == Add(x, Neg(y))

Div(x, y) ==
    [a \in Num, b \in Num |->
        IF IsNaN(a) \/ IsNaN(b) THEN NaN
        ELSE IF IsInf(a) THEN (IF IsInf(b) THEN NaN
                               ELSE IF b[1] < 0 THEN Neg(a) ELSE a)
        ELSE IF IsInf(b) THEN Zero
        ELSE IF IsZero(b) THEN (IF IsZero(a) THEN NaN ELSE Inf(a[1]))
        ELSE MkNum(a[1] * b[2], a[2] * b[1], a[3] - b[3])][x, y]

\* numpy.nan_to_num on one element: nan -> 0.0, +-inf -> +-largest finite float.
NanToNum(x) ==
    IF IsNaN(x) THEN Zero
    ELSE IF x = PosInf THEN MaxFloat
    ELSE IF x = NegInf THEN Neg(MaxFloat)
    ELSE x

\* bool(x) of a float: everything but 0.0 is truthy, nan included.
Truthy(x) == ~IsZero(x)

-----------------------------------------------------------------------------
(* numpy vectors *)

None == <<>>

Frac(n, d) == MkNum(n, d, 0)

Vec == Seq(Num)

\* np.ones([n])
np_ones(n) == [i \in 1..n |-> One]

\* np.multiply(a, b), elementwise
np_multiply(a, b) == [u \in Vec, v \in Vec |-> [i \in 1..Len(u) |-> Mul(u[i], v[i])]][a, b]

\* np.divide(a, b), elementwise, under errstate(divide='ignore', invalid='ignore')
np_divide(a, b) == [u \in Vec, v \in Vec |-> [i \in 1..Len(u) |-> Div(u[i], v[i])]][a, b]

\* np.nan_to_num(a)
np_nan_to_num(a) == [u \in Vec |-> [i \in 1..Len(u) |-> NanToNum(u[i])]][a]

\* ndarray.sum(): left-to-right sum, 0.0 for the empty vector
RECURSIVE np_sum(_)
np_sum(a) ==
    [v \in Vec |-> IF Len(v) = 0 THEN Zero
                   ELSE Add(np_sum(SubSeq(v, 1, Len(v) - 1)), v[Len(v)])][a]

\* ndarray.any() and the builtin any() over a vector
np_any(a) == \E i \in 1..Len(a) : Truthy(a[i])

\* np.array_equal(a, b): same shape and all elements equal (nan equals nothing)
np_array_equal(a, b) ==
    /\ Len(a) = Len(b)
    /\ a # None
    /\ \A i \in 1..Len(a) : ~IsNaN(a[i]) /\ ~IsNaN(b[i]) /\ a[i] = b[i]

\* functools.reduce(np.multiply, seq), left to right from the accumulator acc
RECURSIVE reduce_np_multiply(_, _)
reduce_np_multiply(seq, acc) ==
    IF Len(seq) = 0 THEN acc
    ELSE reduce_np_multiply(Tail(seq), np_multiply(acc, Head(seq)))

\* functools.reduce(lambda x, y: x*y, seq[, initial]), left to right from acc
RECURSIVE reduce_mul(_, _)
reduce_mul(seq, acc) ==
    IF Len(seq) = 0 THEN acc ELSE reduce_mul(Tail(seq), Mul(acc, Head(seq)))

-----------------------------------------------------------------------------
(* exceptions; NoError is a normal return *)

NoError == ""
ValueError_key == "ValueError: label id isn't in allowed set of keys"
TypeError_ndarray == "TypeError: expected a new value of type numpy.ndarray"
ValueError_shape == "ValueError: expected new value to be of dimensions (cardinality,)"
ValueError_missing == "ValueError: missing value for msg: can't compute agg"
ValueError_no_lambda == "ValueError: can't compute pi message without a lambda message from that child"
AttributeError == "AttributeError: 'NoneType' object has no attribute 'any'"
TypeError_none == "TypeError: unsupported operand or subscript of NoneType"
KeyError == "KeyError"
InvalidLambdaMsgToParent == "InvalidLambdaMsgToParent"

\* Python's bool is an int: True == 1 and False == 0
True == One
False == Zero

Return(self, ret) == [self |-> self, ret |-> ret, err |-> NoError]
Raise(self, err) == [self |-> self, ret |-> None, err |-> err]

-----------------------------------------------------------------------------
(* class Node / class BernoulliOrNode *)

Range(seq) == {seq[i] : i \in 1..Len(seq)}

\* Node._init_received_msgs: {k: None for k in keys}
_init_received_msgs(keys) == [k \in Range(keys) |-> None]

\* BernoulliOrCPD(label_id, parents).values: the prior vector of a variable
\* without parents.  The table of a variable with parents is never read by
\* this module's code and is left out (None).
BernoulliOrCPD(label_id, parents, prior) ==
    IF Len(parents) = 0 THEN prior ELSE None

\* BernoulliOrNode.__init__ -> Node.__init__
BernoulliOrNode(label_id, children, parents, prior) ==
    [label_id |-> label_id,
     children |-> children,
     parents |-> parents,
     cardinality |-> cardinality,
     cpd |-> BernoulliOrCPD(label_id, parents, prior),
     pi_agg |-> None,
     lambda_agg |-> None,
     pi_received_msgs |-> _init_received_msgs(parents),
     lambda_received_msgs |-> _init_received_msgs(children)]

\* Node._normalize: value / value.sum()
_normalize(value) ==
    [v \in Vec |-> LET s == np_sum(v) IN [i \in 1..Len(v) |-> Div(v[i], s)]][value]

\* Node.belief (property).  None.any() raises AttributeError; `and`
\* short-circuits, so lambda_agg is only looked at when pi_agg.any() is true.
belief(self) ==
    IF self.pi_agg = None THEN Raise(self, AttributeError)
    ELSE IF ~np_any(self.pi_agg) THEN Return(self, None)
    ELSE IF self.lambda_agg = None THEN Raise(self, AttributeError)
    ELSE IF ~np_any(self.lambda_agg) THEN Return(self, None)
    ELSE Return(self, _normalize(np_multiply(self.pi_agg, self.lambda_agg)))

\* Node._return_msgs_received_for_msg_type: the dict's values in key order,
\* which is the order of the parents / children list given at construction.
_return_msgs_received_for_msg_type(self, message_type) ==
    IF message_type = "lambda"
    THEN [i \in 1..Len(self.children) |-> self.lambda_received_msgs[self.children[i]]]
    ELSE [i \in 1..Len(self.parents) |-> self.pi_received_msgs[self.parents[i]]]

\* Node.validate_and_return_msgs_received_for_msg_type: ret is the list of
\* message values.
validate_and_return_msgs_received_for_msg_type(self, message_type) ==
    LET msg_values == _return_msgs_received_for_msg_type(self, message_type)
    IN  IF \E i \in 1..Len(msg_values) : msg_values[i] = None
        THEN Raise(self, ValueError_missing)
        ELSE Return(self, msg_values)

\* mutant: the aggregate is the first child's message alone
compute_lambda_agg_first_only(self) ==
    IF Len(self.children) = 0 THEN Return(self, self.lambda_agg)
    ELSE LET v == validate_and_return_msgs_received_for_msg_type(self, "lambda")
         IN  IF v.err # NoError THEN Raise(self, v.err)
             ELSE Return([self EXCEPT !.lambda_agg = Head(v.ret)], Head(v.ret))

\* Node.compute_lambda_agg
compute_lambda_agg(self) ==
    IF Len(self.children) = 0 THEN Return(self, self.lambda_agg)
    ELSE LET v == validate_and_return_msgs_received_for_msg_type(self, "lambda")
         IN  IF v.err # NoError THEN Raise(self, v.err)
             ELSE LET agg == reduce_np_multiply(Tail(v.ret), Head(v.ret))
                  IN  Return([self EXCEPT !.lambda_agg = agg], agg)

\* mutant: the value is stored before its shape is checked
_update_received_msg_by_key_store_first(self, received_msg_dict, key, new_value) ==
    IF key \notin DOMAIN received_msg_dict
    THEN [ret |-> received_msg_dict, err |-> ValueError_key]
    ELSE IF ~new_value.isarray
    THEN [ret |-> received_msg_dict, err |-> TypeError_ndarray]
    ELSE IF Len(new_value.v) # self.cardinality
    THEN [ret |-> [received_msg_dict EXCEPT ![key] = new_value.v], err |-> ValueError_shape]
    ELSE [ret |-> [received_msg_dict EXCEPT ![key] = new_value.v], err |-> NoError]

\* mutant: the key is not checked, as in a plain dict assignment
_update_received_msg_by_key_any_key(self, received_msg_dict, key, new_value) ==
    IF ~new_value.isarray
    THEN [ret |-> received_msg_dict, err |-> TypeError_ndarray]
    ELSE IF Len(new_value.v) # self.cardinality
    THEN [ret |-> received_msg_dict, err |-> ValueError_shape]
    ELSE [ret |-> [k \in DOMAIN received_msg_dict \cup {key} |->
                      IF k = key THEN new_value.v ELSE received_msg_dict[k]],
          err |-> NoError]

\* Node._update_received_msg_by_key: ret is the dict after the call.
\* new_value is [isarray |-> is it a numpy.ndarray, v |-> its elements].
_update_received_msg_by_key(self, received_msg_dict, key, new_value) ==
    IF key \notin DOMAIN received_msg_dict
    THEN [ret |-> received_msg_dict, err |-> ValueError_key]
    ELSE IF ~new_value.isarray
    THEN [ret |-> received_msg_dict, err |-> TypeError_ndarray]
    ELSE IF Len(new_value.v) # self.cardinality
    THEN [ret |-> received_msg_dict, err |-> ValueError_shape]
    ELSE [ret |-> [received_msg_dict EXCEPT ![key] = new_value.v], err |-> NoError]

\* Node.update_pi_msg_from_parent
update_pi_msg_from_parent(self, parent, new_value) ==
    LET r == _update_received_msg_by_key(self, self.pi_received_msgs, parent, new_value)
    IN  [self |-> [self EXCEPT !.pi_received_msgs = r.ret], ret |-> None, err |-> r.err]

\* mutant: a new lambda message discards the aggregate computed from the old ones
update_lambda_msg_from_child_drops_agg(self, child, new_value) ==
    LET r == _update_received_msg_by_key(self, self.lambda_received_msgs, child, new_value)
    IN  [self |-> [self EXCEPT !.lambda_received_msgs = r.ret,
                               !.lambda_agg = IF r.err = NoError THEN None ELSE @],
         ret |-> None, err |-> r.err]

\* Node.update_lambda_msg_from_child
update_lambda_msg_from_child(self, child, new_value) ==
    LET r == _update_received_msg_by_key(self, self.lambda_received_msgs, child, new_value)
    IN  [self |-> [self EXCEPT !.lambda_received_msgs = r.ret], ret |-> None, err |-> r.err]

\* mutant: a message that was never received counts as the all-ones vector
compute_pi_msg_to_child_default_ones(self, child_k) ==
    IF child_k \notin DOMAIN self.lambda_received_msgs THEN Raise(self, KeyError)
    ELSE LET received == self.lambda_received_msgs[child_k]
             lambda_msg_from_child == IF received = None THEN np_ones(self.cardinality)
                                      ELSE received
             b == belief(self)
         IN  IF b.err # NoError THEN Raise(self, b.err)
             ELSE IF b.ret = None THEN Raise(self, TypeError_none)
             ELSE Return(self, _normalize(np_nan_to_num(
                                   np_divide(b.ret, lambda_msg_from_child))))

\* mutant: the quotient is returned as it is, not normalized
compute_pi_msg_to_child_not_normalized(self, child_k) ==
    IF child_k \notin DOMAIN self.lambda_received_msgs THEN Raise(self, KeyError)
    ELSE LET lambda_msg_from_child == self.lambda_received_msgs[child_k]
         IN  IF lambda_msg_from_child # None
             THEN LET b == belief(self)
                  IN  IF b.err # NoError THEN Raise(self, b.err)
                      ELSE IF b.ret = None THEN Raise(self, TypeError_none)
                      ELSE Return(self, np_nan_to_num(
                                            np_divide(b.ret, lambda_msg_from_child)))
             ELSE Raise(self, ValueError_no_lambda)

\* Node.compute_pi_msg_to_child.  np.divide(None, array) raises TypeError.
compute_pi_msg_to_child(self, child_k) ==
    IF child_k \notin DOMAIN self.lambda_received_msgs THEN Raise(self, KeyError)
    ELSE LET lambda_msg_from_child == self.lambda_received_msgs[child_k]
         IN  IF lambda_msg_from_child # None
             THEN LET b == belief(self)
                  IN  IF b.err # NoError THEN Raise(self, b.err)
                      ELSE IF b.ret = None THEN Raise(self, TypeError_none)
                      ELSE Return(self, _normalize(np_nan_to_num(
                                            np_divide(b.ret, lambda_msg_from_child))))
             ELSE Raise(self, ValueError_no_lambda)

\* mutant: the product is taken over component 1 of the parents' messages
compute_pi_agg_component_1(self) ==
    IF Len(self.parents) = 0
    THEN Return([self EXCEPT !.pi_agg = self.cpd], self.cpd)
    ELSE LET v == validate_and_return_msgs_received_for_msg_type(self, "pi")
         IN  IF v.err # NoError THEN Raise(self, v.err)
             ELSE LET parents_p0 == [i \in 1..Len(v.ret) |-> v.ret[i][2]]
                      p_0 == reduce_mul(Tail(parents_p0), Head(parents_p0))
                      p_1 == Sub(One, p_0)
                      agg == <<p_0, p_1>>
                  IN  Return([self EXCEPT !.pi_agg = agg], agg)

\* mutant: a node without parents multiplies its prior into the aggregate it has
compute_pi_agg_times_prior(self) ==
    IF Len(self.parents) = 0
    THEN LET agg == IF self.pi_agg = None THEN self.cpd
                    ELSE np_multiply(self.pi_agg, self.cpd)
         IN  Return([self EXCEPT !.pi_agg = agg], agg)
    ELSE LET v == validate_and_return_msgs_received_for_msg_type(self, "pi")
         IN  IF v.err # NoError THEN Raise(self, v.err)
             ELSE LET parents_p0 == [i \in 1..Len(v.ret) |-> v.ret[i][1]]
                      p_0 == reduce_mul(Tail(parents_p0), Head(parents_p0))
                      p_1 == Sub(One, p_0)
                      agg == <<p_0, p_1>>
                  IN  Return([self EXCEPT !.pi_agg = agg], agg)

\* mutant: the two components of the aggregate change places
compute_pi_agg_p_1_first(self) ==
    IF Len(self.parents) = 0
    THEN Return([self EXCEPT !.pi_agg = self.cpd], self.cpd)
    ELSE LET v == validate_and_return_msgs_received_for_msg_type(self, "pi")
         IN  IF v.err # NoError THEN Raise(self, v.err)
             ELSE LET parents_p0 == [i \in 1..Len(v.ret) |-> v.ret[i][1]]
                      p_0 == reduce_mul(Tail(parents_p0), Head(parents_p0))
                      p_1 == Sub(One, p_0)
                      agg == <<p_1, p_0>>
                  IN  Return([self EXCEPT !.pi_agg = agg], agg)

\* BernoulliOrNode.compute_pi_agg
compute_pi_agg(self) ==
    IF Len(self.parents) = 0
    THEN Return([self EXCEPT !.pi_agg = self.cpd], self.cpd)
    ELSE LET v == validate_and_return_msgs_received_for_msg_type(self, "pi")
         IN  IF v.err # NoError THEN Raise(self, v.err)
             ELSE LET parents_p0 == [i \in 1..Len(v.ret) |-> v.ret[i][1]]
                      p_0 == reduce_mul(Tail(parents_p0), Head(parents_p0))
                      p_1 == Sub(One, p_0)
                      agg == <<p_0, p_1>>
                  IN  Return([self EXCEPT !.pi_agg = agg], agg)

\* mutant: the product runs over every parent, parent_k included
compute_lambda_msg_to_parent_all_parents(self, parent_k) ==
    IF np_array_equal(self.lambda_agg, np_ones(self.cardinality))
    THEN Return(self, np_ones(self.cardinality))
    ELSE LET v == validate_and_return_msgs_received_for_msg_type(self, "pi")
         IN  IF v.err # NoError THEN Raise(self, v.err)
             ELSE IF self.lambda_agg = None THEN Raise(self, TypeError_none)
             ELSE LET p0_all == [i \in 1..Len(self.parents) |->
                                    self.pi_received_msgs[self.parents[i]][1]]
                      p0_product == reduce_mul(p0_all, One)
                      lambda_0 == Add(self.lambda_agg[2],
                                      Mul(Sub(self.lambda_agg[1], self.lambda_agg[2]),
                                          p0_product))
                      lambda_1 == self.lambda_agg[2]
                      lambda_msg == <<lambda_0, lambda_1>>
                  IN  IF ~np_any(lambda_msg) THEN Raise(self, InvalidLambdaMsgToParent)
                      ELSE Return(self, _normalize(lambda_msg))

\* mutant: the parents' messages are validated before the all-ones shortcut
compute_lambda_msg_to_parent_validate_first(self, parent_k) ==
    LET v == validate_and_return_msgs_received_for_msg_type(self, "pi")
    IN  IF v.err # NoError THEN Raise(self, v.err)
        ELSE IF np_array_equal(self.lambda_agg, np_ones(self.cardinality))
        THEN Return(self, np_ones(self.cardinality))
        ELSE IF self.lambda_agg = None THEN Raise(self, TypeError_none)
        ELSE LET others == SelectSeq(self.parents, LAMBDA par_id : par_id # parent_k)
                 p0_excluding_k == [i \in 1..Len(others) |->
                                       self.pi_received_msgs[others[i]][1]]
                 p0_product == reduce_mul(p0_excluding_k, One)
                 lambda_0 == Add(self.lambda_agg[2],
                                 Mul(Sub(self.lambda_agg[1], self.lambda_agg[2]),
                                     p0_product))
                 lambda_1 == self.lambda_agg[2]
                 lambda_msg == <<lambda_0, lambda_1>>
             IN  IF ~np_any(lambda_msg) THEN Raise(self, InvalidLambdaMsgToParent)
                 ELSE Return(self, _normalize(lambda_msg))

\* mutant: there is no fast path for a lambda_agg of ones
compute_lambda_msg_to_parent_no_fast_path(self, parent_k) ==
    LET v == validate_and_return_msgs_received_for_msg_type(self, "pi")
    IN  IF v.err # NoError THEN Raise(self, v.err)
        ELSE IF self.lambda_agg = None THEN Raise(self, TypeError_none)
        ELSE LET others == SelectSeq(self.parents, LAMBDA par_id : par_id # parent_k)
                 p0_excluding_k == [i \in 1..Len(others) |->
                                       self.pi_received_msgs[others[i]][1]]
                 p0_product == reduce_mul(p0_excluding_k, One)
                 lambda_0 == Add(self.lambda_agg[2],
                                 Mul(Sub(self.lambda_agg[1], self.lambda_agg[2]),
                                     p0_product))
                 lambda_1 == self.lambda_agg[2]
                 lambda_msg == <<lambda_0, lambda_1>>
             IN  IF ~np_any(lambda_msg) THEN Raise(self, InvalidLambdaMsgToParent)
                 ELSE Return(self, _normalize(lambda_msg))

\* mutant: a lambda_agg of None is taken for the vector of ones
compute_lambda_msg_to_parent_none_as_ones(self, parent_k) ==
    IF self.lambda_agg = None \/ np_array_equal(self.lambda_agg, np_ones(self.cardinality))
    THEN Return(self, np_ones(self.cardinality))
    ELSE LET v == validate_and_return_msgs_received_for_msg_type(self, "pi")
         IN  IF v.err # NoError THEN Raise(self, v.err)
             ELSE LET others == SelectSeq(self.parents, LAMBDA par_id : par_id # parent_k)
                      p0_excluding_k == [i \in 1..Len(others) |->
                                            self.pi_received_msgs[others[i]][1]]
                      p0_product == reduce_mul(p0_excluding_k, One)
                      lambda_0 == Add(self.lambda_agg[2],
                                      Mul(Sub(self.lambda_agg[1], self.lambda_agg[2]),
                                          p0_product))
                      lambda_1 == self.lambda_agg[2]
                      lambda_msg == <<lambda_0, lambda_1>>
                  IN  IF ~np_any(lambda_msg) THEN Raise(self, InvalidLambdaMsgToParent)
                      ELSE Return(self, _normalize(lambda_msg))

\* BernoulliOrNode.compute_lambda_msg_to_parent.  None[1] raises TypeError.
compute_lambda_msg_to_parent(self, parent_k) ==
    IF np_array_equal(self.lambda_agg, np_ones(self.cardinality))
    THEN Return(self, np_ones(self.cardinality))
    ELSE LET v == validate_and_return_msgs_received_for_msg_type(self, "pi")
         IN  IF v.err # NoError THEN Raise(self, v.err)
             ELSE IF self.lambda_agg = None THEN Raise(self, TypeError_none)
             ELSE LET others == SelectSeq(self.parents, LAMBDA par_id : par_id # parent_k)
                      p0_excluding_k == [i \in 1..Len(others) |->
                                            self.pi_received_msgs[others[i]][1]]
                      p0_product == reduce_mul(p0_excluding_k, One)
                      lambda_0 == Add(self.lambda_agg[2],
                                      Mul(Sub(self.lambda_agg[1], self.lambda_agg[2]),
                                          p0_product))
                      lambda_1 == self.lambda_agg[2]
                      lambda_msg == <<lambda_0, lambda_1>>
                  IN  IF ~np_any(lambda_msg) THEN Raise(self, InvalidLambdaMsgToParent)
                      ELSE Return(self, _normalize(lambda_msg))

\* mutant: the aggregates are not looked at
is_fully_initialized_msgs_only(self) ==
    LET lambda_msgs == _return_msgs_received_for_msg_type(self, "lambda")
        pi_msgs == _return_msgs_received_for_msg_type(self, "pi")
    IN  IF \E i \in 1..Len(lambda_msgs) : lambda_msgs[i] = None THEN False
        ELSE IF \E i \in 1..Len(pi_msgs) : pi_msgs[i] = None THEN False
        ELSE True

\* Node.is_fully_initialized (property): the boolean it returns
is_fully_initialized(self) ==
    LET lambda_msgs == _return_msgs_received_for_msg_type(self, "lambda")
        pi_msgs == _return_msgs_received_for_msg_type(self, "pi")
    IN  IF \E i \in 1..Len(lambda_msgs) : lambda_msgs[i] = None THEN False
        ELSE IF \E i \in 1..Len(pi_msgs) : pi_msgs[i] = None THEN False
        ELSE IF self.pi_agg = None \/ self.lambda_agg = None THEN False
        ELSE True

-----------------------------------------------------------------------------
(* class BeliefUpdateNodeModel *)

\* networkx DiGraph(edges).successors(label) / .predecessors(label), in the
\* order the edges were given
successors(edges, label) ==
    LET out == SelectSeq(edges, LAMBDA e : e[1] = label)
    IN  [i \in 1..Len(out) |-> out[i][2]]

predecessors(edges, label) ==
    LET in == SelectSeq(edges, LAMBDA e : e[2] = label)
    IN  [i \in 1..Len(in) |-> in[i][1]]

\* BeliefUpdateNodeModel.init_from_edges with node_class = BernoulliOrNode
init_from_edges(edges, prior) ==
    LET labels == UNION {{edges[i][1], edges[i][2]} : i \in 1..Len(edges)}
    IN  [label \in labels |->
            BernoulliOrNode(label, successors(edges, label),
                            predecessors(edges, label), prior)]

\* BeliefUpdateNodeModel._get_edges_from_nodes
_get_edges_from_nodes(nodes) ==
    UNION {{<<node.parents[i], node.label_id>> : i \in 1..Len(node.parents)} :
           node \in nodes}

\* BayesianModel.get_roots / get_leaves over the graph built in __init__ from
\* the derived edges and the keys of nodes_dict: the vertices without an
\* incoming / outgoing edge.
get_roots(nd) ==
    LET edges == _get_edges_from_nodes({nd[k] : k \in DOMAIN nd})
    IN  {v \in DOMAIN nd : ~\E e \in edges : e[2] = v}

get_leaves(nd) ==
    LET edges == _get_edges_from_nodes({nd[k] : k \in DOMAIN nd})
    IN  {v \in DOMAIN nd : ~\E e \in edges : e[1] = v}

\* mutant: the second loop runs over every node, not over the leaves
set_boundary_conditions_every_node(nd) ==
    LET roots == get_roots(nd)
        after_roots == [k \in DOMAIN nd |->
                          IF k \in roots THEN [nd[k] EXCEPT !.pi_agg = nd[k].cpd]
                          ELSE nd[k]]
    IN  [k \in DOMAIN nd |->
            [after_roots[k] EXCEPT !.lambda_agg = np_ones(after_roots[k].cardinality)]]

\* mutant: the second loop runs over the roots again
set_boundary_conditions_roots_twice(nd) ==
    LET roots == get_roots(nd)
    IN  [k \in DOMAIN nd |->
            IF k \in roots
            THEN [nd[k] EXCEPT !.pi_agg = nd[k].cpd,
                               !.lambda_agg = np_ones(nd[k].cardinality)]
            ELSE nd[k]]

\* BeliefUpdateNodeModel.set_boundary_conditions: the nodes_dict after the call
set_boundary_conditions(nd) ==
    LET roots == get_roots(nd)
        leaves == get_leaves(nd)
        after_roots == [k \in DOMAIN nd |->
                          IF k \in roots THEN [nd[k] EXCEPT !.pi_agg = nd[k].cpd]
                          ELSE nd[k]]
    IN  [k \in DOMAIN nd |->
            IF k \in leaves
            THEN [after_roots[k] EXCEPT !.lambda_agg = np_ones(after_roots[k].cardinality)]
            ELSE after_roots[k]]

\* mutant: copy.copy(nodes_dict), a new dict that holds the same Node objects
deepcopy_same_nodes(nd) == [k \in DOMAIN nd |-> [shared |-> TRUE, obj |-> None]]

\* copy.deepcopy(nodes_dict): a new dict with a new Node object per key, whose
\* mailboxes and aggregates are new objects with the contents of the old ones
deepcopy(nd) == [k \in DOMAIN nd |-> [shared |-> FALSE, obj |-> nd[k]]]

\* BeliefUpdateNodeModel.copy: the nodes_dict of the returned model; the
\* constructor reads the nodes and keeps the dict it is given
copy(nd) == LET copy_nodes == deepcopy(nd) IN copy_nodes

\* BeliefUpdateNodeModel.all_nodes_are_fully_initialized (property): False at
\* the first node that is not fully initialized, else True
all_nodes_are_fully_initialized(nd) ==
    IF \E k \in DOMAIN nd : is_fully_initialized(nd[k]) = False THEN False ELSE True

-----------------------------------------------------------------------------
(* the models and the inputs of a run *)

Chain == << <<"A", "B">> >>
Fork == << <<"A", "B">>, <<"A", "C">> >>
\* two parents A, B of C, which has the child D
Funnel == << <<"A", "C">>, <<"B", "C">>, <<"C", "D">> >>

EdgeLists == {Chain, Fork, Funnel}

Priors == {<<Frac(1, 2), Frac(1, 2)>>, <<Frac(7, 10), Frac(3, 10)>>}

\* A nodes_dict handed to the constructor whose declarations disagree: A names
\* B as its child, B names no parent.
MismatchedNodes(prior) ==
    [label \in {"A", "B"} |->
        IF label = "A" THEN BernoulliOrNode("A", <<"B">>, <<>>, prior)
        ELSE BernoulliOrNode("B", <<>>, <<>>, prior)]

ndarray(v) == [isarray |-> TRUE, v |-> v]
pylist(v) == [isarray |-> FALSE, v |-> v]
NoValue == pylist(None)

\* what a caller may hand to update_*_msg_*: vectors of the right length, one
\* of length 3, and a plain Python list
BadValues == {ndarray(<<One, One, One>>), pylist(<<One, One>>)}

PiVectors ==
    {<<Zero, One>>, <<Frac(2, 5), Frac(3, 5)>>, <<Frac(1, 2), Frac(1, 2)>>}

LambdaVectors == {<<One, One>>, <<One, Zero>>, <<Frac(1, 2), Frac(1, 4)>>}

PiValues == {ndarray(v) : v \in PiVectors} \cup BadValues
LambdaValues == {ndarray(v) : v \in LambdaVectors} \cup BadValues

Call(op, node, key, val, r) ==
    [op |-> op, node |-> node, key |-> key, val |-> val, ret |-> r.ret, err |-> r.err]

Init ==
    /\ \E prior \in Priors :
          \/ \E edges \in EdgeLists : nodes_dict = init_from_edges(edges, prior)
          \/ nodes_dict = MismatchedNodes(prior)
    /\ focus \in DOMAIN nodes_dict
    /\ last = Call("__init__", "", "", NoValue, Return(None, None))
    /\ copy_model = None

\* one method call on node n, with result r = [self, ret, err]
NodeCall(op, n, key, val, r) ==
    /\ n = focus
    /\ nodes_dict' = [nodes_dict EXCEPT ![n] = r.self]
    /\ last' = Call(op, n, key, val, r)
    /\ UNCHANGED <<focus, copy_model>>

UpdatePiMsgFromParent ==
    \E n \in DOMAIN nodes_dict, parent \in DOMAIN nodes_dict, new_value \in PiValues :
        NodeCall("update_pi_msg_from_parent", n, parent, new_value,
                 update_pi_msg_from_parent(nodes_dict[n], parent, new_value))

UpdateLambdaMsgFromChild ==
    \E n \in DOMAIN nodes_dict, child \in DOMAIN nodes_dict, new_value \in LambdaValues :
        NodeCall("update_lambda_msg_from_child", n, child, new_value,
                 update_lambda_msg_from_child(nodes_dict[n], child, new_value))

ComputeLambdaAgg ==
    \E n \in DOMAIN nodes_dict :
        NodeCall("compute_lambda_agg", n, "", NoValue, compute_lambda_agg(nodes_dict[n]))

ComputePiAgg ==
    \E n \in DOMAIN nodes_dict :
        NodeCall("compute_pi_agg", n, "", NoValue, compute_pi_agg(nodes_dict[n]))

ComputePiMsgToChild ==
    \E n \in DOMAIN nodes_dict, child_k \in DOMAIN nodes_dict :
        NodeCall("compute_pi_msg_to_child", n, child_k, NoValue,
                 compute_pi_msg_to_child(nodes_dict[n], child_k))

ComputeLambdaMsgToParent ==
    \E n \in DOMAIN nodes_dict, parent_k \in DOMAIN nodes_dict :
        NodeCall("compute_lambda_msg_to_parent", n, parent_k, NoValue,
                 compute_lambda_msg_to_parent(nodes_dict[n], parent_k))

Belief ==
    \E n \in DOMAIN nodes_dict :
        NodeCall("belief", n, "", NoValue, belief(nodes_dict[n]))

IsFullyInitialized ==
    \E n \in DOMAIN nodes_dict :
        NodeCall("is_fully_initialized", n, "", NoValue,
                 Return(nodes_dict[n], is_fully_initialized(nodes_dict[n])))

AllNodesAreFullyInitialized ==
    /\ last' = Call("all_nodes_are_fully_initialized", "", "", NoValue,
                    Return(None, all_nodes_are_fully_initialized(nodes_dict)))
    /\ UNCHANGED <<nodes_dict, focus, copy_model>>

SetBoundaryConditions ==
    /\ nodes_dict' = set_boundary_conditions(nodes_dict)
    /\ last' = Call("set_boundary_conditions", "", "", NoValue, Return(None, None))
    /\ UNCHANGED <<focus, copy_model>>

Next ==
    \/ UpdatePiMsgFromParent
    \/ UpdateLambdaMsgFromChild
    \/ ComputeLambdaAgg
    \/ ComputePiAgg
    \/ ComputePiMsgToChild
    \/ ComputeLambdaMsgToParent
    \/ Belief
    \/ IsFullyInitialized
    \/ AllNodesAreFullyInitialized
    \/ SetBoundaryConditions

Spec == Init /\ [][Next]_vars

-----------------------------------------------------------------------------
(* the calls of Spec, and deposits of pi messages that are not normalized *)

\* update_pi_msg_from_parent checks the type and the shape of a message and
\* nothing else: a caller may deposit a vector that is no distribution
UnnormalizedPiVectors == {<<Frac(2, 1), One>>}

UpdatePiMsgFromParentUnnormalized ==
    \E n \in DOMAIN nodes_dict, parent \in DOMAIN nodes_dict,
       new_value \in {ndarray(v) : v \in UnnormalizedPiVectors} :
        NodeCall("update_pi_msg_from_parent", n, parent, new_value,
                 update_pi_msg_from_parent(nodes_dict[n], parent, new_value))

\* the models of Init with the prior [1/2, 1/2]
InitUnnormalized ==
    /\ Init
    /\ \A n \in DOMAIN nodes_dict :
          nodes_dict[n].cpd \in {None, <<Frac(1, 2), Frac(1, 2)>>}

NextUnnormalized == Next \/ UpdatePiMsgFromParentUnnormalized

SpecUnnormalized == InitUnnormalized /\ [][NextUnnormalized]_vars

-----------------------------------------------------------------------------
(* a model and its copy: the calls of Spec made on either of the two *)

Models == {"self", "copy"}

\* the nodes that the keys of a model's nodes_dict refer to
NodesOf(model) ==
    IF model = "self" THEN nodes_dict
    ELSE [k \in DOMAIN copy_model |->
             IF copy_model[k].shared THEN nodes_dict[k] ELSE copy_model[k].obj]

\* the attribute assignments of a call on a model, new[k] being the node
\* under key k after the call: they reach the object the key refers to
Assign(model, new) ==
    IF model = "self" THEN nodes_dict' = new /\ UNCHANGED copy_model
    ELSE /\ nodes_dict' = [k \in DOMAIN nodes_dict |->
                              IF copy_model[k].shared THEN new[k] ELSE nodes_dict[k]]
         /\ copy_model' = [k \in DOMAIN copy_model |->
                              IF copy_model[k].shared THEN copy_model[k]
                              ELSE [copy_model[k] EXCEPT !.obj = new[k]]]

Exists(model) == model = "copy" => copy_model # None

\* one method call on node n of a model, with result r = [self, ret, err]
NodeCallOn(model, op, n, key, val, r) ==
    /\ n = focus
    /\ Assign(model, [NodesOf(model) EXCEPT ![n] = r.self])
    /\ last' = Call(op, n, key, val, r)
    /\ UNCHANGED focus

CopyPiValues == {ndarray(<<Frac(2, 5), Frac(3, 5)>>)}
CopyLambdaValues == {ndarray(<<Frac(1, 2), Frac(1, 4)>>)}

Copy ==
    /\ copy_model' = copy(nodes_dict)
    /\ last' = Call("copy", "", "", NoValue, Return(None, None))
    /\ UNCHANGED <<nodes_dict, focus>>

UpdatePiMsgFromParentOn(model) ==
    /\ Exists(model)
    /\ \E n \in DOMAIN nodes_dict, parent \in DOMAIN nodes_dict, new_value \in CopyPiValues :
          NodeCallOn(model, "update_pi_msg_from_parent", n, parent, new_value,
                     update_pi_msg_from_parent(NodesOf(model)[n], parent, new_value))

UpdateLambdaMsgFromChildOn(model) ==
    /\ Exists(model)
    /\ \E n \in DOMAIN nodes_dict, child \in DOMAIN nodes_dict, new_value \in CopyLambdaValues :
          NodeCallOn(model, "update_lambda_msg_from_child", n, child, new_value,
                     update_lambda_msg_from_child(NodesOf(model)[n], child, new_value))

ComputeLambdaAggOn(model) ==
    /\ Exists(model)
    /\ \E n \in DOMAIN nodes_dict :
          NodeCallOn(model, "compute_lambda_agg", n, "", NoValue,
                     compute_lambda_agg(NodesOf(model)[n]))

ComputePiAggOn(model) ==
    /\ Exists(model)
    /\ \E n \in DOMAIN nodes_dict :
          NodeCallOn(model, "compute_pi_agg", n, "", NoValue,
                     compute_pi_agg(NodesOf(model)[n]))

SetBoundaryConditionsOn(model) ==
    /\ Exists(model)
    /\ Assign(model, set_boundary_conditions(NodesOf(model)))
    /\ last' = Call("set_boundary_conditions", "", "", NoValue, Return(None, None))
    /\ UNCHANGED focus

CallOn(model) ==
    \/ UpdatePiMsgFromParentOn(model)
    \/ UpdateLambdaMsgFromChildOn(model)
    \/ ComputeLambdaAggOn(model)
    \/ ComputePiAggOn(model)
    \/ SetBoundaryConditionsOn(model)

OnSelf == CallOn("self")
OnCopy == CallOn("copy")

InitCopy ==
    /\ \E prior \in Priors, edges \in {Chain, Fork} :
          nodes_dict = init_from_edges(edges, prior)
    /\ focus \in DOMAIN nodes_dict
    /\ last = Call("__init__", "", "", NoValue, Return(None, None))
    /\ copy_model = None

NextCopy == Copy \/ OnSelf \/ OnCopy

SpecCopy == InitCopy /\ [][NextCopy]_vars

-----------------------------------------------------------------------------
(* a driver: an external loop that calls every node and deposits no message
   but the one the sender's compute_*_msg_* returned *)

Collider == << <<"A", "C">>, <<"B", "C">> >>
Diamond == << <<"A", "B">>, <<"A", "C">>, <<"B", "D">>, <<"C", "D">> >>

DriverEdgeLists == {Chain, Fork, Collider, Diamond}

Labels == {"A", "B", "C", "D"}

InitDriver ==
    /\ \E prior \in Priors, edges \in DriverEdgeLists :
          nodes_dict = init_from_edges(edges, prior)
    /\ focus = None
    /\ last = Call("__init__", "", "", NoValue, Return(None, None))
    /\ copy_model = None

\* one method call of the driver on node n, with result r = [self, ret, err]
DriverCall(op, n, key, val, r) ==
    /\ nodes_dict' = [nodes_dict EXCEPT ![n] = r.self]
    /\ last' = Call(op, n, key, val, r)
    /\ UNCHANGED <<focus, copy_model>>

ComputeLambdaAggOf(n) ==
    /\ n \in DOMAIN nodes_dict
    /\ DriverCall("compute_lambda_agg", n, "", NoValue, compute_lambda_agg(nodes_dict[n]))

ComputePiAggOf(n) ==
    /\ n \in DOMAIN nodes_dict
    /\ DriverCall("compute_pi_agg", n, "", NoValue, compute_pi_agg(nodes_dict[n]))

\* parent.update_lambda_msg_from_child(child, child.compute_lambda_msg_to_parent(parent));
\* an exception of the inner call ends the step
DeliverLambdaMsg(child, parent) ==
    /\ child \in DOMAIN nodes_dict
    /\ parent \in DOMAIN nodes_dict
    /\ \E msg \in {compute_lambda_msg_to_parent(nodes_dict[child], parent)} :
           IF msg.err # NoError
           THEN DriverCall("compute_lambda_msg_to_parent", child, parent, NoValue, msg)
           ELSE DriverCall("update_lambda_msg_from_child", parent, child, ndarray(msg.ret),
                           update_lambda_msg_from_child(nodes_dict[parent], child,
                                                        ndarray(msg.ret)))

\* child.update_pi_msg_from_parent(parent, parent.compute_pi_msg_to_child(child))
DeliverPiMsg(parent, child) ==
    /\ child \in DOMAIN nodes_dict
    /\ parent \in DOMAIN nodes_dict
    /\ \E msg \in {compute_pi_msg_to_child(nodes_dict[parent], child)} :
           IF msg.err # NoError
           THEN DriverCall("compute_pi_msg_to_child", parent, child, NoValue, msg)
           ELSE DriverCall("update_pi_msg_from_parent", child, parent, ndarray(msg.ret),
                           update_pi_msg_from_parent(nodes_dict[child], parent,
                                                     ndarray(msg.ret)))

\* a driver that never calls set_boundary_conditions
NextStall ==
    \E n \in Labels, k \in Labels :
        \/ ComputeLambdaAggOf(n)
        \/ ComputePiAggOf(n)
        \/ DeliverLambdaMsg(n, k)
        \/ DeliverPiMsg(n, k)

SpecStall == InitDriver /\ [][NextStall]_vars

\* a driver that calls set_boundary_conditions once, first, and then takes a
\* step only when it raises nothing
Started == last.op # "__init__"

Boundary == ~Started /\ SetBoundaryConditions

LambdaAggStep(n) == Started /\ ComputeLambdaAggOf(n) /\ last'.err = NoError
PiAggStep(n) == Started /\ ComputePiAggOf(n) /\ last'.err = NoError
LambdaMsgStep(child, parent) == Started /\ DeliverLambdaMsg(child, parent) /\ last'.err = NoError
PiMsgStep(parent, child) == Started /\ DeliverPiMsg(parent, child) /\ last'.err = NoError

NextDriver ==
    \/ Boundary
    \/ \E n \in Labels : LambdaAggStep(n)
    \/ \E n \in Labels : PiAggStep(n)
    \/ \E n \in Labels, k \in Labels : LambdaMsgStep(n, k)
    \/ \E n \in Labels, k \in Labels : PiMsgStep(n, k)

\* the driver is weakly fair to each of its steps
FairDriver ==
    /\ WF_vars(Boundary)
    /\ \A n \in Labels : WF_vars(LambdaAggStep(n)) /\ WF_vars(PiAggStep(n))
    /\ \A n \in Labels, k \in Labels :
          WF_vars(LambdaMsgStep(n, k)) /\ WF_vars(PiMsgStep(n, k))

SpecDriver == InitDriver /\ [][NextDriver]_vars /\ FairDriver

-----------------------------------------------------------------------------
(* properties *)

\* the call just made
Called(op) == last'.op = op
Self == nodes_dict[focus]
Succeeded == last'.err = NoError

\* all orders in which the elements of a sequence can be taken
Orders(seq) ==
    {o \in [1..Len(seq) -> 1..Len(seq)] : \A i, j \in 1..Len(seq) : i # j => o[i] # o[j]}

InOrder(seq, o) == [i \in 1..Len(seq) |-> seq[o[i]]]

RECURSIVE ProductOfVectors(_)
ProductOfVectors(seq) ==
    IF Len(seq) = 1 THEN seq[1]
    ELSE [i \in 1..Len(seq[1]) |-> Mul(seq[1][i], ProductOfVectors(Tail(seq))[i])]

\* the state of a node that the methods may change
NodeState(node) ==
    <<node.pi_received_msgs, node.lambda_received_msgs, node.pi_agg, node.lambda_agg>>

ChildSlotUnset(node) == \E c \in DOMAIN node.lambda_received_msgs :
                            node.lambda_received_msgs[c] = None
ParentSlotUnset(node) == \E q \in DOMAIN node.pi_received_msgs :
                            node.pi_received_msgs[q] = None

\* C1: on a node with at least one child, compute_lambda_agg raises the
\* missing-message error exactly when some child slot is unset; otherwise it
\* stores in lambda_agg and returns the elementwise product of the child
\* messages, whatever the order the messages are multiplied in.
C1_ComputeLambdaAggStep ==
    (Called("compute_lambda_agg") /\ Len(Self.children) >= 1) =>
        /\ last'.err = ValueError_missing <=> ChildSlotUnset(Self)
        /\ ~ChildSlotUnset(Self) =>
              /\ Succeeded
              /\ nodes_dict'[focus].lambda_agg = last'.ret
              /\ LET msgs == [i \in 1..Len(Self.children) |->
                                Self.lambda_received_msgs[Self.children[i]]]
                 IN  \A o \in Orders(msgs) :
                        last'.ret = ProductOfVectors(InOrder(msgs, o))

C1_ComputeLambdaAgg == [][C1_ComputeLambdaAggStep]_vars

\* two children have deposited different messages and the aggregate is their product
C1_Witness ==
    /\ last.op = "compute_lambda_agg"
    /\ last.err = NoError
    /\ Len(nodes_dict[focus].children) = 2
    /\ nodes_dict[focus].lambda_received_msgs["B"] = <<Frac(1, 2), Frac(1, 4)>>
    /\ nodes_dict[focus].lambda_received_msgs["C"] = <<One, Zero>>
    /\ nodes_dict[focus].lambda_agg = <<Frac(1, 2), Zero>>

\* C2: a call that ends in an exception leaves the mailboxes and the
\* aggregates of every node as they were.
C2_FailingCalls ==
    {"update_pi_msg_from_parent", "update_lambda_msg_from_child",
     "compute_lambda_agg", "compute_pi_agg",
     "compute_pi_msg_to_child", "compute_lambda_msg_to_parent"}

C2_NoPartialMutationStep ==
    (last'.op \in C2_FailingCalls /\ ~Succeeded) =>
        \A n \in DOMAIN nodes_dict : NodeState(nodes_dict'[n]) = NodeState(nodes_dict[n])

C2_NoPartialMutation == [][C2_NoPartialMutationStep]_vars

\* a vector of the wrong length was refused for a slot that already held a
\* message, on a node whose aggregates were computed
C2_Witness ==
    /\ last.op = "update_lambda_msg_from_child"
    /\ last.err = ValueError_shape
    /\ nodes_dict[focus].lambda_received_msgs[last.key] # None
    /\ nodes_dict[focus].lambda_agg # None
    /\ nodes_dict[focus].pi_agg # None

\* C3: reading belief on a node whose pi_agg or lambda_agg is None gives None
\* and no exception.
C3_BeliefNoneWhenAggregateAbsent ==
    (/\ last.op = "belief"
     /\ nodes_dict[focus].pi_agg = None \/ nodes_dict[focus].lambda_agg = None) =>
        (last.err = NoError /\ last.ret = None)

IsZeroVector(v) == \A i \in 1..Len(v) : IsZero(v[i])
NonNegative(x) == IsFinite(x) /\ x[1] >= 0

\* C4: with both aggregates present, belief is None when their elementwise
\* product is the zero vector, and otherwise the product divided by its sum,
\* non-negative and summing to 1.
C4_BeliefOfPresentAggregates ==
    (/\ last.op = "belief"
     /\ nodes_dict[focus].pi_agg # None
     /\ nodes_dict[focus].lambda_agg # None) =>
        LET product == [i \in 1..cardinality |->
                           Mul(nodes_dict[focus].pi_agg[i], nodes_dict[focus].lambda_agg[i])]
            total == Add(product[1], product[2])
        IN  /\ last.err = NoError
            /\ IF IsZeroVector(product) THEN last.ret = None
               ELSE /\ last.ret = [i \in 1..cardinality |-> Div(product[i], total)]
                    /\ \A i \in 1..cardinality : NonNegative(last.ret[i])
                    /\ Add(last.ret[1], last.ret[2]) = One

\* C5: the keys of pi_received_msgs are the declared parents and those of
\* lambda_received_msgs the declared children; a slot is None or a vector of
\* length cardinality; a successful update_*_msg_* call sets its slot to the
\* value given, and no other call changes any slot.
C5_MailboxShape ==
    \A n \in DOMAIN nodes_dict :
        /\ DOMAIN nodes_dict[n].pi_received_msgs = Range(nodes_dict[n].parents)
        /\ DOMAIN nodes_dict[n].lambda_received_msgs = Range(nodes_dict[n].children)
        /\ \A k \in DOMAIN nodes_dict[n].pi_received_msgs :
              Len(nodes_dict[n].pi_received_msgs[k]) \in {0, nodes_dict[n].cardinality}
        /\ \A k \in DOMAIN nodes_dict[n].lambda_received_msgs :
              Len(nodes_dict[n].lambda_received_msgs[k]) \in {0, nodes_dict[n].cardinality}

Deposited(op, n, k) ==
    /\ last'.op = op
    /\ last'.node = n
    /\ last'.key = k
    /\ last'.err = NoError

C5_MailboxStep ==
    \A n \in DOMAIN nodes_dict :
        /\ \A k \in DOMAIN nodes_dict[n].pi_received_msgs :
              nodes_dict'[n].pi_received_msgs[k] =
                  IF Deposited("update_pi_msg_from_parent", n, k)
                  THEN last'.val.v ELSE nodes_dict[n].pi_received_msgs[k]
        /\ \A k \in DOMAIN nodes_dict[n].lambda_received_msgs :
              nodes_dict'[n].lambda_received_msgs[k] =
                  IF Deposited("update_lambda_msg_from_child", n, k)
                  THEN last'.val.v ELSE nodes_dict[n].lambda_received_msgs[k]

C5_Mailbox == []C5_MailboxShape /\ [][C5_MailboxStep]_vars

\* a pi message was deposited over the one pi_agg had been computed from
C5_Witness ==
    /\ last.op = "update_pi_msg_from_parent"
    /\ last.err = NoError
    /\ Len(nodes_dict[focus].parents) = 1
    /\ nodes_dict[focus].pi_agg # None
    /\ nodes_dict[focus].pi_received_msgs[last.key] = last.val.v
    /\ nodes_dict[focus].pi_agg[1] # last.val.v[1]

\* C6: every lambda slot starts unset and only a successful
\* update_lambda_msg_from_child(c, v) on the node sets it; for a declared child
\* c, compute_pi_msg_to_child(c) raises the precondition error while the slot
\* of c is unset, so a successful call follows such an update; with the slot
\* set and the belief defined it returns the normalized quotient of the belief
\* by the message of c (stated where every quotient is a finite number); the
\* call changes no state.
C6_SlotsUnset ==
    \A n \in DOMAIN nodes_dict : \A c \in DOMAIN nodes_dict[n].lambda_received_msgs :
        nodes_dict[n].lambda_received_msgs[c] = None

C6_Quotient(b, m) == [i \in 1..Len(b) |-> Div(b[i], m[i])]

C6_Normalized(q) == [i \in 1..Len(q) |-> Div(q[i], Add(q[1], q[2]))]

C6_PiMsgStep ==
    /\ \A n \in DOMAIN nodes_dict : \A c \in DOMAIN nodes_dict[n].lambda_received_msgs :
          (/\ nodes_dict[n].lambda_received_msgs[c] = None
           /\ nodes_dict'[n].lambda_received_msgs[c] # None) =>
              Deposited("update_lambda_msg_from_child", n, c)
    /\ \A c \in DOMAIN Self.lambda_received_msgs :
          (Called("compute_pi_msg_to_child") /\ last'.key = c) =>
              LET msg == Self.lambda_received_msgs[c]
                  b == belief(Self)
              IN  /\ nodes_dict' = nodes_dict
                  /\ msg = None => last'.err = ValueError_no_lambda
                  /\ Succeeded => msg # None
                  /\ (msg # None /\ b.err = NoError /\ b.ret # None) =>
                        /\ Succeeded
                        /\ (\A i \in 1..cardinality : IsFinite(C6_Quotient(b.ret, msg)[i])) =>
                              last'.ret = C6_Normalized(C6_Quotient(b.ret, msg))

C6_PiMsgAfterLambdaMsg == C6_SlotsUnset /\ [][C6_PiMsgStep]_vars

\* the belief [7/10, 3/10] * [1/2, 1/4] (normalized) was divided by the
\* child's message [1/2, 1/4]
C6_Witness ==
    /\ last.op = "compute_pi_msg_to_child"
    /\ last.err = NoError
    /\ nodes_dict[focus].lambda_received_msgs[last.key] = <<Frac(1, 2), Frac(1, 4)>>
    /\ nodes_dict[focus].lambda_agg = <<Frac(1, 2), Frac(1, 4)>>
    /\ nodes_dict[focus].pi_agg = <<Frac(7, 10), Frac(3, 10)>>
    /\ last.ret = <<Frac(7, 10), Frac(3, 10)>>

\* C7: BernoulliOrNode.compute_pi_agg sets pi_agg to the CPD's values on a node
\* without parents; with parents it raises the missing-message error exactly
\* when a parent slot is unset and otherwise sets and returns [p0, 1 - p0], p0
\* the product of component 0 of the parents' messages in any order.
RECURSIVE ProductOfNumbers(_)
ProductOfNumbers(seq) ==
    IF Len(seq) = 0 THEN One ELSE Mul(Head(seq), ProductOfNumbers(Tail(seq)))

C7_ComputePiAggStep ==
    Called("compute_pi_agg") =>
        IF Len(Self.parents) = 0
        THEN /\ Succeeded
             /\ last'.ret = Self.cpd
             /\ nodes_dict'[focus].pi_agg = Self.cpd
        ELSE /\ last'.err = ValueError_missing <=> ParentSlotUnset(Self)
             /\ ~ParentSlotUnset(Self) =>
                   /\ Succeeded
                   /\ nodes_dict'[focus].pi_agg = last'.ret
                   /\ LET p0s == [i \in 1..Len(Self.parents) |->
                                     Self.pi_received_msgs[Self.parents[i]][1]]
                      IN  \A o \in Orders(p0s) :
                             LET p0 == ProductOfNumbers(InOrder(p0s, o))
                             IN  last'.ret = <<p0, Sub(One, p0)>>

C7_ComputePiAgg == [][C7_ComputePiAggStep]_vars

\* parents reporting [0.4, 0.6] and [0.5, 0.5] give [0.2, 0.8]
C7_Witness ==
    /\ last.op = "compute_pi_agg"
    /\ last.err = NoError
    /\ nodes_dict[focus].parents = <<"A", "B">>
    /\ nodes_dict[focus].pi_received_msgs["A"] = <<Frac(2, 5), Frac(3, 5)>>
    /\ nodes_dict[focus].pi_received_msgs["B"] = <<Frac(1, 2), Frac(1, 2)>>
    /\ last.ret = <<Frac(1, 5), Frac(4, 5)>>
    /\ nodes_dict[focus].pi_agg = last.ret

\* C8: compute_lambda_msg_to_parent(k) with lambda_agg present and not all
\* ones raises the missing-message error when a parent slot is unset;
\* otherwise, with p0_product the product of component 0 of the messages of
\* the parents other than k, lambda_0 = lambda_agg[1] + (lambda_agg[0] -
\* lambda_agg[1]) * p0_product and lambda_1 = lambda_agg[1], it raises
\* InvalidLambdaMsgToParent exactly when both are zero and otherwise returns
\* [lambda_0, lambda_1] / (lambda_0 + lambda_1); no state changes.
C8_Lambda0(node, k) ==
    LET p0_product == ProductOfNumbers(
            [i \in 1..Len(node.parents) |->
                IF node.parents[i] = k THEN One
                ELSE node.pi_received_msgs[node.parents[i]][1]])
    IN  Add(node.lambda_agg[2],
            Mul(Sub(node.lambda_agg[1], node.lambda_agg[2]), p0_product))

C8_Lambda1(node) == node.lambda_agg[2]

C8_LambdaMsgStep ==
    \A k \in DOMAIN nodes_dict :
        (/\ Called("compute_lambda_msg_to_parent")
         /\ last'.key = k
         /\ Self.lambda_agg # None
         /\ Self.lambda_agg # <<One, One>>) =>
            /\ nodes_dict' = nodes_dict
            /\ IF ParentSlotUnset(Self) THEN last'.err = ValueError_missing
               ELSE LET lambda_0 == C8_Lambda0(Self, k)
                        lambda_1 == C8_Lambda1(Self)
                        total == Add(lambda_0, lambda_1)
                    IN  IF IsZero(lambda_0) /\ IsZero(lambda_1)
                        THEN last'.err = InvalidLambdaMsgToParent
                        ELSE /\ Succeeded
                             /\ last'.ret = <<Div(lambda_0, total), Div(lambda_1, total)>>

C8_LambdaMsgGeneralPath == [][C8_LambdaMsgStep]_vars

\* lambda_agg [1/2, 1/4], the other parent B reporting [2/5, 3/5]:
\* lambda_0 = 1/4 + 1/4 * 2/5 = 7/20, lambda_1 = 5/20
C8_Witness ==
    /\ last.op = "compute_lambda_msg_to_parent"
    /\ last.err = NoError
    /\ last.key = "A"
    /\ nodes_dict[focus].parents = <<"A", "B">>
    /\ nodes_dict[focus].lambda_agg = <<Frac(1, 2), Frac(1, 4)>>
    /\ nodes_dict[focus].pi_received_msgs["A"] = <<Zero, One>>
    /\ nodes_dict[focus].pi_received_msgs["B"] = <<Frac(2, 5), Frac(3, 5)>>
    /\ last.ret = <<Frac(7, 12), Frac(5, 12)>>

\* the contradictory configuration: both components of the message are zero
C8_InvalidReached ==
    /\ last.op = "compute_lambda_msg_to_parent"
    /\ last.err = InvalidLambdaMsgToParent
    /\ Len(nodes_dict[focus].parents) = 2

\* C9: whenever lambda_agg is the all-ones vector, compute_lambda_msg_to_parent
\* returns the all-ones vector for any parent, raises nothing and changes no
\* state, whatever the pi slots hold.
C9_FastPathStep ==
    (Called("compute_lambda_msg_to_parent") /\ Self.lambda_agg = <<One, One>>) =>
        /\ Succeeded
        /\ last'.ret = <<One, One>>
        /\ nodes_dict' = nodes_dict

C9_FastPath == [][C9_FastPathStep]_vars

\* the shortcut was taken on a node with two parents, one of them silent
C9_Witness ==
    /\ last.op = "compute_lambda_msg_to_parent"
    /\ last.err = NoError
    /\ last.ret = <<One, One>>
    /\ nodes_dict[focus].lambda_agg = <<One, One>>
    /\ Len(nodes_dict[focus].parents) = 2
    /\ nodes_dict[focus].pi_received_msgs["A"] # None
    /\ nodes_dict[focus].pi_received_msgs["B"] = None

\* C10: on a model whose parent and child declarations agree,
\* set_boundary_conditions sets pi_agg of every node without parents to its
\* CPD's values and lambda_agg of every node without children to the all-ones
\* vector, and changes nothing else.
Consistent(nd) ==
    \A a \in DOMAIN nd :
        /\ Range(nd[a].children) \subseteq DOMAIN nd
        /\ Range(nd[a].parents) \subseteq DOMAIN nd
        /\ \A b \in DOMAIN nd : b \in Range(nd[a].children) <=> a \in Range(nd[b].parents)

C10_BoundaryStep ==
    (Called("set_boundary_conditions") /\ Consistent(nodes_dict)) =>
        \A n \in DOMAIN nodes_dict :
            LET old == nodes_dict[n]
                new == nodes_dict'[n]
            IN  /\ new.pi_agg = IF Len(old.parents) = 0 THEN old.cpd ELSE old.pi_agg
                /\ new.lambda_agg = IF Len(old.children) = 0 THEN np_ones(old.cardinality)
                                    ELSE old.lambda_agg
                /\ new.pi_received_msgs = old.pi_received_msgs
                /\ new.lambda_received_msgs = old.lambda_received_msgs
                /\ new = [old EXCEPT !.pi_agg = new.pi_agg, !.lambda_agg = new.lambda_agg]

C10_BoundaryConditions == [][C10_BoundaryStep]_vars

\* the conditions were set on the four-node model while its inner node held
\* messages and both aggregates
C10_Witness ==
    /\ last.op = "set_boundary_conditions"
    /\ DOMAIN nodes_dict = {"A", "B", "C", "D"}
    /\ Consistent(nodes_dict)
    /\ focus = "C"
    /\ nodes_dict["A"].pi_agg = nodes_dict["A"].cpd
    /\ nodes_dict["A"].lambda_agg = None
    /\ nodes_dict["D"].lambda_agg = <<One, One>>
    /\ nodes_dict["D"].pi_agg = None
    /\ nodes_dict["C"].pi_agg = <<Frac(1, 5), Frac(4, 5)>>
    /\ nodes_dict["C"].lambda_agg = <<Frac(1, 2), Frac(1, 4)>>
    /\ ~ParentSlotUnset(nodes_dict["C"])

\* C11: is_fully_initialized of a node is true exactly when every declared
\* parent has a pi message present, every declared child has a lambda message
\* present and both aggregates are present; all_nodes_are_fully_initialized is
\* true exactly when that holds of every node of the model; reading either
\* leaves every node as it was.
C11_NodeReady(node) ==
    /\ \A i \in 1..Len(node.parents) : node.pi_received_msgs[node.parents[i]] # None
    /\ \A i \in 1..Len(node.children) : node.lambda_received_msgs[node.children[i]] # None
    /\ node.pi_agg # None
    /\ node.lambda_agg # None

C11_ReadinessStep ==
    /\ Called("is_fully_initialized") =>
          /\ Succeeded
          /\ last'.ret = True <=> C11_NodeReady(Self)
          /\ nodes_dict' = nodes_dict
    /\ Called("all_nodes_are_fully_initialized") =>
          /\ Succeeded
          /\ last'.ret = True <=>
                \A n \in DOMAIN nodes_dict : is_fully_initialized(nodes_dict[n]) = True
          /\ \A n \in DOMAIN nodes_dict :
                is_fully_initialized(nodes_dict[n]) = True <=> C11_NodeReady(nodes_dict[n])
          /\ nodes_dict' = nodes_dict

C11_Readiness == [][C11_ReadinessStep]_vars

\* the model reads True for a model one of whose nodes had to receive a message
C11_Witness ==
    /\ last.op = "all_nodes_are_fully_initialized"
    /\ last.ret = True
    /\ Len(nodes_dict[focus].children) >= 1
    /\ C11_NodeReady(nodes_dict[focus])

\* C12: right after copy() every node of the copy has the mailbox contents
\* and the aggregates of the original's node, and from then on a call on the
\* copy (a deposit, an aggregation, set_boundary_conditions) changes no
\* mailbox slot and no aggregate of the original, and a call on the original
\* changes none of the copy.
C12_NodeStates(nd) == [k \in DOMAIN nd |-> NodeState(nd[k])]

C12_CopyStep ==
    /\ Copy => C12_NodeStates(NodesOf("copy"))' = C12_NodeStates(nodes_dict)
    /\ OnCopy => C12_NodeStates(nodes_dict') = C12_NodeStates(nodes_dict)
    /\ (OnSelf /\ copy_model # None) =>
          C12_NodeStates(NodesOf("copy"))' = C12_NodeStates(NodesOf("copy"))

C12_CopyIsIndependent == [][C12_CopyStep]_vars

\* after the copy was made the copy's node received a lambda message and the
\* original's node computed its pi_agg: each has what the other has not
C12_Witness ==
    /\ copy_model # None
    /\ Len(nodes_dict[focus].children) >= 1
    /\ nodes_dict[focus].pi_agg # None
    /\ NodesOf("copy")[focus].pi_agg = None
    /\ \E c \in DOMAIN nodes_dict[focus].lambda_received_msgs :
          /\ nodes_dict[focus].lambda_received_msgs[c] = None
          /\ NodesOf("copy")[focus].lambda_received_msgs[c] # None

\* C13: compute_pi_msg_to_child divides the belief by the child's message
\* elementwise with 0/0 := 0 and with every other quotient that is not finite
\* (a non-zero component over a zero component) mapped to 0 as well, and
\* returns that vector normalized.
C13_SafeDivide(a, b) ==
    [i \in 1..Len(a) |-> IF IsFinite(Div(a[i], b[i])) THEN Div(a[i], b[i]) ELSE Zero]

C13_DegenerateDivisionPolicy ==
    (/\ last.op = "compute_pi_msg_to_child"
     /\ last.err = NoError) =>
        last.ret = _normalize(C13_SafeDivide(belief(nodes_dict[focus]).ret,
                                             nodes_dict[focus].lambda_received_msgs[last.key]))

\* C14: on the chain A -> B with the prior [7/10, 3/10] of A,
\* set_boundary_conditions leaves A.pi_agg = [7/10, 3/10] and
\* B.lambda_agg = [1, 1]; the pi message of A that B receives is [7/10, 3/10],
\* and after B's compute_pi_agg B.pi_agg and B.belief are [7/10, 3/10].
C14_Prior == <<Frac(7, 10), Frac(3, 10)>>

C14_Chain ==
    /\ DOMAIN nodes_dict = {"A", "B"}
    /\ nodes_dict["A"].children = <<"B">>
    /\ nodes_dict["A"].cpd = C14_Prior

C14_ScenarioA ==
    C14_Chain =>
        /\ last.op = "set_boundary_conditions" =>
              /\ nodes_dict["A"].pi_agg = C14_Prior
              /\ nodes_dict["B"].lambda_agg = <<One, One>>
        /\ (last.op = "update_pi_msg_from_parent" /\ last.node = "B") =>
              /\ last.key = "A"
              /\ last.val = ndarray(C14_Prior)
              /\ nodes_dict["B"].pi_received_msgs["A"] = C14_Prior
        /\ (last.op = "compute_pi_agg" /\ last.node = "B") =>
              /\ last.ret = C14_Prior
              /\ nodes_dict["B"].pi_agg = C14_Prior
              /\ belief(nodes_dict["B"]) = Return(nodes_dict["B"], C14_Prior)

\* B has received the pi message of A and computed its pi_agg
C14_Witness ==
    /\ C14_Chain
    /\ last.op = "compute_pi_agg"
    /\ last.node = "B"
    /\ nodes_dict["B"].pi_received_msgs["A"] = C14_Prior
    /\ nodes_dict["B"].pi_agg = C14_Prior
    /\ belief(nodes_dict["B"]).ret = C14_Prior

\* C15: on a Bernoulli-OR node without parents, compute_pi_agg called again
\* right after compute_pi_agg returns the vector the call before returned and
\* leaves the node in the state the call before left it in.
C15_PiAggIdempotent ==
    (/\ last.op = "compute_pi_agg"
     /\ Len(nodes_dict[focus].parents) = 0) =>
        /\ last.err = NoError
        /\ compute_pi_agg(nodes_dict[focus]) = Return(nodes_dict[focus], last.ret)

\* compute_pi_agg has run on a root that holds a child's message and an
\* aggregate of its own
C15_Witness ==
    /\ last.op = "compute_pi_agg"
    /\ Len(nodes_dict[focus].parents) = 0
    /\ Len(nodes_dict[focus].children) >= 1
    /\ nodes_dict[focus].lambda_agg # None
    /\ nodes_dict[focus].pi_agg = nodes_dict[focus].cpd
    /\ last.ret = <<Frac(7, 10), Frac(3, 10)>>

\* C16: when set_boundary_conditions is never called and every message
\* deposited is one the sender's compute_pi_msg_to_child or
\* compute_lambda_msg_to_parent returned, in every reachable state some node
\* has an unset mailbox slot and all_nodes_are_fully_initialized is False.
\* No compute_*_msg_* call returns a message in any of these states, so it
\* makes no difference whether a message is deposited at once or later.
C16_Stalled ==
    /\ \E n \in DOMAIN nodes_dict :
          ChildSlotUnset(nodes_dict[n]) \/ ParentSlotUnset(nodes_dict[n])
    /\ all_nodes_are_fully_initialized(nodes_dict) = False
    /\ \A n \in DOMAIN nodes_dict, k \in DOMAIN nodes_dict :
          /\ compute_lambda_msg_to_parent(nodes_dict[n], k).err # NoError
          /\ compute_pi_msg_to_child(nodes_dict[n], k).err # NoError

\* the driver has tried to deliver a message and a root has computed its
\* pi_agg, the one step that succeeds
C16_Witness ==
    /\ last.op = "compute_lambda_msg_to_parent"
    /\ last.err # NoError
    /\ \E n \in DOMAIN nodes_dict : nodes_dict[n].pi_agg # None
    /\ DOMAIN nodes_dict = Labels

\* C17: in a model whose parent and child declarations agree, as
\* init_from_edges builds it, a node with children has a lambda_agg only when
\* every child slot holds a message, a node with parents has a pi_agg only
\* when every parent slot holds a message, and so belief is a vector only on a
\* node that holds a message of every neighbour.
C17_ProtocolOf(node) ==
    /\ (Len(node.children) >= 1 /\ node.lambda_agg # None) => ~ChildSlotUnset(node)
    /\ (Len(node.parents) >= 1 /\ node.pi_agg # None) => ~ParentSlotUnset(node)
    /\ (belief(node).err = NoError /\ belief(node).ret # None) =>
          (~ChildSlotUnset(node) /\ ~ParentSlotUnset(node))

C17_ConsistencyProtocol ==
    Consistent(nodes_dict) => \A n \in DOMAIN nodes_dict : C17_ProtocolOf(nodes_dict[n])

\* a node with two parents and a child holds all three messages and both
\* aggregates, and its belief is a vector
C17_Witness ==
    /\ Consistent(nodes_dict)
    /\ Len(nodes_dict[focus].parents) = 2
    /\ Len(nodes_dict[focus].children) = 1
    /\ nodes_dict[focus].lambda_agg # None
    /\ nodes_dict[focus].pi_agg # None
    /\ belief(nodes_dict[focus]).err = NoError
    /\ belief(nodes_dict[focus]).ret # None
    /\ last.op = "belief"

\* C18: on the chain, the fork, the collider and the diamond with non-zero
\* priors and no evidence, a driver that first calls set_boundary_conditions
\* and then is weakly fair to each of its steps (compute_lambda_agg,
\* compute_pi_agg, the delivery of a lambda message and of a pi message, each
\* taken only when it raises nothing) can, as long as
\* all_nodes_are_fully_initialized is False, always take a step that changes
\* a node, and eventually reaches a state where it is True.
C18_AllReady == all_nodes_are_fully_initialized(nodes_dict) = True

C18_Progress == NextDriver /\ nodes_dict' # nodes_dict

C18_EventualReadiness ==
    /\ [](~C18_AllReady => ENABLED C18_Progress)
    /\ <>C18_AllReady

\* the diamond is fully initialized
C18_Witness ==
    /\ C18_AllReady
    /\ DOMAIN nodes_dict = Labels
    /\ nodes_dict["D"].pi_received_msgs["B"] # None
    /\ nodes_dict["D"].pi_received_msgs["C"] # None
    /\ nodes_dict["A"].lambda_agg = <<One, One>>

\* C19: no call, whether it succeeds or fails (a deposit, compute_lambda_agg,
\* compute_pi_agg, the computation of a message, a read, a repeated
\* set_boundary_conditions), turns a set mailbox slot back to None or a
\* present aggregate back to None; so a node whose is_fully_initialized is
\* True keeps it True, and so does a model whose
\* all_nodes_are_fully_initialized is True.
C19_MonotoneStep ==
    /\ \A n \in DOMAIN nodes_dict :
          /\ \A k \in DOMAIN nodes_dict[n].pi_received_msgs :
                nodes_dict[n].pi_received_msgs[k] # None =>
                    nodes_dict'[n].pi_received_msgs[k] # None
          /\ \A k \in DOMAIN nodes_dict[n].lambda_received_msgs :
                nodes_dict[n].lambda_received_msgs[k] # None =>
                    nodes_dict'[n].lambda_received_msgs[k] # None
          /\ nodes_dict[n].pi_agg # None => nodes_dict'[n].pi_agg # None
          /\ nodes_dict[n].lambda_agg # None => nodes_dict'[n].lambda_agg # None
          /\ is_fully_initialized(nodes_dict[n]) = True =>
                is_fully_initialized(nodes_dict'[n]) = True
    /\ all_nodes_are_fully_initialized(nodes_dict) = True =>
          all_nodes_are_fully_initialized(nodes_dict') = True

C19_ReadinessIsMonotone == [][C19_MonotoneStep]_vars

\* a deposit was refused on a node of a fully initialized model, and the
\* model is still fully initialized
C19_Witness ==
    /\ last.op = "update_lambda_msg_from_child"
    /\ last.err = ValueError_shape
    /\ Len(nodes_dict[focus].children) >= 1
    /\ is_fully_initialized(nodes_dict[focus]) = True
    /\ all_nodes_are_fully_initialized(nodes_dict) = True

\* C20: on a node whose messages are non-negative, whose lambda_agg is the
\* product of the messages its child slots hold (compute_lambda_agg ran after
\* the last deposit into them) and whose belief is defined,
\* compute_pi_msg_to_child(c) divides no non-zero belief component by a zero
\* component of the message of c, and returns a non-negative vector that sums
\* to 1; so a non-zero over zero quotient needs a lambda_agg older than a
\* deposit.
C20_ChildMsgs(node) ==
    [i \in 1..Len(node.children) |-> node.lambda_received_msgs[node.children[i]]]

C20_NonNegativeMsgs(node) ==
    /\ \A k \in DOMAIN node.lambda_received_msgs :
          \A i \in 1..Len(node.lambda_received_msgs[k]) :
              NonNegative(node.lambda_received_msgs[k][i])
    /\ \A k \in DOMAIN node.pi_received_msgs :
          \A i \in 1..Len(node.pi_received_msgs[k]) :
              NonNegative(node.pi_received_msgs[k][i])

C20_FreshLambdaAgg(node) ==
    /\ Len(node.children) >= 1
    /\ ~ChildSlotUnset(node)
    /\ node.lambda_agg = ProductOfVectors(C20_ChildMsgs(node))

\* the belief is defined: both aggregates are present and their product is
\* not the zero vector
C20_BeliefDefined(node) ==
    /\ node.pi_agg # None
    /\ node.lambda_agg # None
    /\ ~IsZeroVector(np_multiply(node.pi_agg, node.lambda_agg))

C20_NonZeroOverZero(node, c) ==
    \E i \in 1..cardinality :
        /\ IsZero(node.lambda_received_msgs[c][i])
        /\ ~IsZero(belief(node).ret[i])

C20_NonNegativePiAgg(node) ==
    node.pi_agg # None => \A i \in 1..Len(node.pi_agg) : NonNegative(node.pi_agg[i])

=============================================================================
